---- MODULE Spec2Model ----
(***************************************************************************)
(* Animation codec and container pipeline of the desktop-pet tooling:      *)
(*   - GifToFlash.rle_compress / generate_header   (video_to_flash.py)     *)
(*   - parse_header_file / create_binary_file      (convert_to_spiffs.py)  *)
(*   - FrameAnalyzer.group_frames_by_similarity    (Frame Viewer.py)       *)
(***************************************************************************)
EXTENDS Integers, Sequences, FiniteSets, TLC

VARIABLES
    pc,           \* position of the running script
    data,         \* rle_compress: the frame handed to the codec
    compressed,   \* rle_compress: its result
    output,       \* <name>_decompress: the result record of the generated routine
    frames,       \* generate_header: the list of frames to encode
    fps,          \* generate_header: the frame rate argument
    header_file,  \* the <name>.h file on disk (NoFile before it is written)
    anim_data,    \* the record returned by parse_header_file
    anim_file,    \* the bytes of <name>.anim written so far
    self_frames,  \* FrameAnalyzer.frames: frame number -> data
    frames_dir,   \* the frame files on disk, as parse_frame_file reads them
    threshold,    \* group_frames_by_similarity: the threshold argument
    groups,       \* group_frames_by_similarity: the returned groups
    byte_array,   \* bytes_to_image*: the buffer to draw
    img,          \* bytes_to_image*: the returned image
    selected_frames, \* ManualFrameSelector.selected_frames
    messagebox,   \* ManualFrameSelector: the error dialog the last button press showed
    script_dir,   \* converter main: the <name>.h files next to the script
    output_dir,   \* converter main: the <name>.anim files in data/
    manifest_file, \* converter main: data/manifest.txt
    animations_info, \* converter main: the dict of converted animations, in order
    anim_idx      \* converter main: position of the for loop in ANIMATIONS

vars == <<pc, data, compressed, output, frames, fps, header_file, anim_data,
          anim_file, self_frames, frames_dir, threshold, groups, byte_array, img,
          selected_frames, messagebox, script_dir, output_dir, manifest_file,
          animations_info, anim_idx>>

rleVars  == <<data, compressed, output>>
pipeVars == <<frames, fps, header_file, anim_data, anim_file>>
segVars  == <<self_frames, frames_dir, threshold, groups>>
imgVars  == <<byte_array, img>>
\* the state of the tools that the codec, the pipeline and the analyzer's
\* grouping do not touch
selVars  == <<selected_frames, messagebox>>
mainVars == <<script_dir, output_dir, manifest_file, animations_info, anim_idx>>
otherVars == <<imgVars, selVars, mainVars>>

(***************************************************************************)
(* Bounds of the model.                                                    *)
(***************************************************************************)
MaxRuns == 2          \* blocks of equal bytes a codec input is built from
MaxRunLen == 511      \* longest block of equal bytes in a codec input
MaxFrames == 3        \* frames in one animation
MaxFrameLen == 2      \* bytes in one frame of the pipeline
MaxArrays == 2        \* frame arrays in a header file found on disk
MaxFrameNum == 4      \* largest frame number in the analyzer's directory
MaxSlotLen == 3       \* bytes in a compressed slot handed to the decompressor
MaxBufLen == 2        \* bytes in the decompressor's output buffer

MaxAnims == 2         \* animations of the ANIMATIONS list the converter is run on
MaxEntryLen == 3      \* characters typed into the "Individual Frames" entry
MaxLenDiff == 1       \* bytes a drawn buffer is shorter or longer than the bitmap

\* FrameAnalyzer.__init__: the bitmap the analyzer draws
width == 128
height == 64

None == "None"       \* Python's None, and a variable a run does not use
NoFile == "NoFile"

\* the tools outside the run at hand are not used
ImgIdle == byte_array = None /\ img = None
SelIdle == selected_frames = <<>> /\ messagebox = None
MainIdle ==
    /\ script_dir = <<>> /\ output_dir = <<>> /\ manifest_file = NoFile
    /\ animations_info = <<>> /\ anim_idx = 0
OtherToolsIdle == ImgIdle /\ SelIdle /\ MainIdle

(***************************************************************************)
(* Generic helpers.                                                        *)
(***************************************************************************)
Repeat(n, v) == [k \in 1..n |-> v]

Min(a, b) == IF a < b THEN a ELSE b

RECURSIVE Concat(_)
Concat(ss) == IF ss = <<>> THEN <<>> ELSE Head(ss) \o Concat(Tail(ss))

RECURSIVE SumSeq(_)
SumSeq(s) == IF s = <<>> THEN 0 ELSE Head(s) + SumSeq(Tail(s))

\* max(...) taken as the first element
MaxSeq_first(s) == s[1]

RECURSIVE MaxSeq(_)
MaxSeq(s) == IF Len(s) = 1 THEN s[1]
             ELSE LET m == MaxSeq(Tail(s)) IN IF s[1] > m THEN s[1] ELSE m

\* sequences over S of length 0..n
SeqUpTo(S, n) == UNION {[1..k -> S] : k \in 0..n}

(***************************************************************************)
(* GifToFlash.rle_compress                                                 *)
(***************************************************************************)
\* np.array(compressed, dtype=np.uint8): every element is stored in 8 bits
uint8_array(s) == [k \in 1..Len(s) |-> s[k] % 256]

\* the loop body with the run cap tested as count <= 255
rle_step_cap(st, b) ==
    IF b = st.current_byte /\ st.count <= 255
    THEN [st EXCEPT !.count = @ + 1]
    ELSE [current_byte |-> b,
          count |-> 1,
          compressed |-> st.compressed \o <<st.count, st.current_byte>>]

\* the loop body with runs closed one byte early (count < 254)
rle_step_254(st, b) ==
    IF b = st.current_byte /\ st.count < 254
    THEN [st EXCEPT !.count = @ + 1]
    ELSE [current_byte |-> b,
          count |-> 1,
          compressed |-> st.compressed \o <<st.count, st.current_byte>>]

\* the loop body with the two conditions joined by "or"
rle_step_or(st, b) ==
    IF b = st.current_byte \/ st.count < 255
    THEN [st EXCEPT !.count = @ + 1]
    ELSE [current_byte |-> b,
          count |-> 1,
          compressed |-> st.compressed \o <<st.count, st.current_byte>>]

\* the loop body with the run cap of a signed byte (count < 127)
rle_step_127(st, b) ==
    IF b = st.current_byte /\ st.count < 127
    THEN [st EXCEPT !.count = @ + 1]
    ELSE [current_byte |-> b,
          count |-> 1,
          compressed |-> st.compressed \o <<st.count, st.current_byte>>]

\* the body of the for loop of rle_compress for the byte b = data[i];
\* st holds the loop's locals
rle_step(st, b) ==
    IF b = st.current_byte /\ st.count < 255
    THEN [st EXCEPT !.count = @ + 1]
    ELSE [current_byte |-> b,
          count |-> 1,
          compressed |-> st.compressed \o <<st.count, st.current_byte>>]

\* the iterations i = lo..hi of the for loop (1-based), in order.  The range
\* is halved to keep the evaluation depth logarithmic; count is at least 1
\* in every iteration, and testing it evaluates the first half before the
\* second half starts.
RECURSIVE rle_loop(_, _, _, _)
rle_loop(d, st, lo, hi) ==
    IF lo > hi THEN st
    ELSE IF lo = hi THEN rle_step(st, d[lo])
    ELSE LET first == rle_loop(d, st, lo, (lo + hi) \div 2)
         IN  IF first.count >= 1
             THEN rle_loop(d, first, (lo + hi) \div 2 + 1, hi)
             ELSE first

\* rle_compress without the flush of the last run (lines 126-128 dropped)
rle_compress_nolast(d) ==
    IF Len(d) = 0 THEN <<>>
    ELSE uint8_array(rle_loop(d, [current_byte |-> d[1], count |-> 1,
                                  compressed |-> <<>>], 2, Len(d)).compressed)

\* rle_compress without the early return for empty data: the locals start
\* as an empty run of byte 0, which the flush after the loop emits
rle_compress_no_empty_check(d) ==
    LET st == rle_loop(d, [current_byte |-> IF Len(d) = 0 THEN 0 ELSE d[1],
                           count |-> IF Len(d) = 0 THEN 0 ELSE 1,
                           compressed |-> <<>>], 2, Len(d))
    IN  uint8_array(st.compressed \o <<st.count, st.current_byte>>)

rle_compress(d) ==
    IF Len(d) = 0 THEN <<>>
    ELSE LET st == rle_loop(d, [current_byte |-> d[1], count |-> 1,
                                compressed |-> <<>>], 2, Len(d))
         IN  uint8_array(st.compressed \o <<st.count, st.current_byte>>)

(***************************************************************************)
(* The <name>_decompress routine that generate_header emits.  For          *)
(* i = 0, 2, ... below compressed_size it loads count = compressed[i] and  *)
(* value = compressed[i + 1] and stores count copies of value at           *)
(* output[out_idx++].  A load at an index that c does not hold yields the  *)
(* byte past; stores at indexes >= buflen fall outside the caller's        *)
(* buffer and are reported, not kept.                                      *)
(***************************************************************************)
load(c, k, past) == IF k <= Len(c) THEN c[k] ELSE past

\* the values stored by the iterations from (1-based) index i on, in order
RECURSIVE decompress_runs(_, _, _, _)
decompress_runs(c, compressed_size, i, past) ==
    IF i > compressed_size THEN <<>>
    ELSE Repeat(load(c, i, past), load(c, i + 1, past))
         \o decompress_runs(c, compressed_size, i + 2, past)

\* out: the bytes stored into the buffer; out_idx: the final store index;
\* oob_store / oob_load: a store past the buffer, a load past compressed_size;
\* raised: the error reported to the caller (the routine is void and has no
\* failing path, so it reports none)
decompress(c, compressed_size, buflen, past) ==
    LET stored == decompress_runs(c, compressed_size, 1, past)
    IN  [out |-> SubSeq(stored, 1, Min(buflen, Len(stored))),
         out_idx |-> Len(stored),
         oob_store |-> Len(stored) > buflen,
         oob_load |-> compressed_size % 2 = 1,
         raised |-> None]

(***************************************************************************)
(* Text of the generated header: decimal constants and 0xHH literals.      *)
(***************************************************************************)
\* f"{n}": the decimal digits of a non-negative int, most significant first
RECURSIVE str_int(_)
str_int(n) == IF n < 10 THEN <<n>> ELSE str_int(n \div 10) \o <<n % 10>>

\* int(text) of a string matched by (\d+)
RECURSIVE int_str(_)
int_str(s) ==
    IF Len(s) = 0 THEN 0
    ELSE int_str(SubSeq(s, 1, Len(s) - 1)) * 10 + s[Len(s)]

\* the two hex digits written low nibble first
hex_literal_swapped(byte) == <<byte % 16, byte \div 16>>

\* f"0x{byte:02X}": the two hex digits of a byte, high nibble first
hex_literal(byte) == <<byte \div 16, byte % 16>>

\* int(h, 16) of the two digits matched by 0x([0-9A-Fa-f]{2})
int_hex(h) == h[1] * 16 + h[2]

(***************************************************************************)
(* GifToFlash.generate_header (use_compression=True): the constants, the   *)
(* frame_sizes array and the frame arrays written to <name>.h.             *)
(***************************************************************************)
\* a frame array padded with 0xFF instead of 0x00
frame_array_ff(frame_data, max_compressed_size) ==
    [j \in 1..Len(frame_data) |-> <<frame_data[j] \div 16, frame_data[j] % 16>>]
    \o (IF Len(frame_data) < max_compressed_size
        THEN Repeat(max_compressed_size - Len(frame_data), <<15, 15>>)
        ELSE <<>>)

\* one "{ ... }" array: the compressed bytes, then 0x00 up to the row width
frame_array(frame_data, max_compressed_size) ==
    [j \in 1..Len(frame_data) |-> hex_literal(frame_data[j])]
    \o (IF Len(frame_data) < max_compressed_size
        THEN Repeat(max_compressed_size - Len(frame_data), hex_literal(0))
        ELSE <<>>)

\* generate_header writing the padded row width as every frame size
generate_header_padded_sizes(fs, rate) ==
    LET compressed_frames == [i \in 1..Len(fs) |-> rle_compress(fs[i])]
        compressed_sizes == [i \in 1..Len(fs) |-> Len(compressed_frames[i])]
        max_compressed_size ==
            IF compressed_sizes # <<>> THEN MaxSeq(compressed_sizes) ELSE 0
    IN  [FRAME_COUNT |-> str_int(Len(fs)),
         FPS |-> str_int(rate),
         UNCOMPRESSED_SIZE |-> str_int(IF fs # <<>> THEN Len(fs[1]) ELSE 0),
         MAX_COMPRESSED_SIZE |-> str_int(max_compressed_size),
         frame_sizes |-> [i \in 1..Len(fs) |-> str_int(max_compressed_size)],
         frames |-> [i \in 1..Len(fs) |->
                        frame_array(compressed_frames[i], max_compressed_size)]]

generate_header(fs, rate) ==
    LET frame_count == Len(fs)
        bytes_per_frame == IF fs # <<>> THEN Len(fs[1]) ELSE 0
        compressed_frames == [i \in 1..Len(fs) |-> rle_compress(fs[i])]
        compressed_sizes == [i \in 1..Len(fs) |-> Len(compressed_frames[i])]
        max_compressed_size ==
            IF compressed_sizes # <<>> THEN MaxSeq(compressed_sizes) ELSE 0
    IN  [FRAME_COUNT |-> str_int(frame_count),
         FPS |-> str_int(rate),
         UNCOMPRESSED_SIZE |-> str_int(bytes_per_frame),
         MAX_COMPRESSED_SIZE |-> str_int(max_compressed_size),
         frame_sizes |-> [i \in 1..Len(fs) |-> str_int(compressed_sizes[i])],
         frames |-> [i \in 1..Len(fs) |->
                        frame_array(compressed_frames[i], max_compressed_size)]]

(***************************************************************************)
(* parse_header_file                                                       *)
(***************************************************************************)
parse_header_file(content) ==
    LET frame_count == int_str(content.FRAME_COUNT)
        frame_arrays == content.frames
    IN  [frame_count |-> frame_count,
         fps |-> int_str(content.FPS),
         max_compressed_size |-> int_str(content.MAX_COMPRESSED_SIZE),
         frame_sizes |-> [i \in 1..Len(content.frame_sizes) |->
                             int_str(content.frame_sizes[i])],
         frames |-> [i \in 1..Min(Len(frame_arrays), frame_count) |->
                        [j \in 1..Len(frame_arrays[i]) |->
                            int_hex(frame_arrays[i][j])]]]

(***************************************************************************)
(* create_binary_file                                                      *)
(***************************************************************************)
\* struct.pack('<H', v) accepts exactly the unsigned 16-bit values
fits_H(v) == v \in 0..65535

\* the two bytes written high byte first ('>H')
pack_H_be(v) == <<v \div 256, v % 256>>

\* struct.pack('<H', v): low byte first
pack_H(v) == <<v % 256, v \div 256>>

\* the bytes one loop iteration writes for a frame: the frame, then padding
frame_slot(frame, max_compressed_size) ==
    LET padding == max_compressed_size - Len(frame)
    IN  frame \o (IF padding > 0 THEN Repeat(padding, 0) ELSE <<>>)

\* number of sizes the size loop writes before struct.pack raises
RECURSIVE sizes_written(_, _)
sizes_written(sizes, i) ==
    IF i > Len(sizes) THEN Len(sizes)
    ELSE IF fits_H(sizes[i]) THEN sizes_written(sizes, i + 1)
    ELSE i - 1

\* the content of <name>.anim when create_binary_file returns or raises
create_binary_file(ad) ==
    IF ~ (fits_H(ad.frame_count) /\ fits_H(ad.fps) /\ fits_H(ad.max_compressed_size))
    THEN [bytes |-> <<>>, raised |-> TRUE]
    ELSE
      LET head == pack_H(ad.frame_count) \o pack_H(ad.fps)
                  \o pack_H(ad.max_compressed_size) \o Repeat(6, 0)
          n == sizes_written(ad.frame_sizes, 1)
          table == Concat([i \in 1..n |-> pack_H(ad.frame_sizes[i])])
      IN  IF n < Len(ad.frame_sizes)
          THEN [bytes |-> head \o table, raised |-> TRUE]
          ELSE [bytes |-> head \o table \o
                          Concat([i \in 1..Len(ad.frames) |->
                                    frame_slot(ad.frames[i], ad.max_compressed_size)]),
                raised |-> FALSE]

(***************************************************************************)
(* main and create_manifest of the converter.  A file is a record: exists  *)
(* tells whether it is on disk.                                            *)
(***************************************************************************)
ANIMATIONS ==
    <<"angry", "angry_2", "confused_2", "content", "determined",
      "embarrassed", "excited_2", "frustrated", "happy", "happy_2",
      "intro", "laugh", "love", "music", "proud", "relaxed",
      "sleepy", "sleepy_3">>

NoHeader == [exists |-> FALSE, content |-> <<>>]
NoAnim == [exists |-> FALSE, bytes |-> <<>>]
NoManifest == [exists |-> FALSE, count |-> <<>>, entries |-> <<>>]

\* parse_header_file raises AttributeError (None.group) when one of the
\* three constants has no "= <digits>;" to match
parse_header_file_raises(content) ==
    \/ Len(content.FRAME_COUNT) = 0
    \/ Len(content.FPS) = 0
    \/ Len(content.MAX_COMPRESSED_SIZE) = 0

\* create_manifest: the count line, then one line per animation (the line
\* is "<name>.anim,<frame_count>,<fps>,<max_compressed_size>")
create_manifest(info) ==
    [exists |-> TRUE,
     count |-> str_int(Len(info)),
     entries |-> [k \in 1..Len(info) |->
                    [name |-> info[k].name,
                     frame_count |-> str_int(info[k].info.frame_count),
                     fps |-> str_int(info[k].info.fps),
                     max_compressed_size |->
                         str_int(info[k].info.max_compressed_size)]]]

(***************************************************************************)
(* FrameAnalyzer (Frame Viewer.py)                                         *)
(***************************************************************************)
\* a float is kept as the exact fraction num/den, or is float('inf')
Float(n) == [inf |-> FALSE, num |-> n, den |-> 1]
Inf == [inf |-> TRUE, num |-> 0, den |-> 1]

Abs(x) == IF x < 0 THEN -x ELSE x

\* the difference without the length test: zip() stops at the shorter buffer
calculate_frame_difference_zip(frame1_data, frame2_data) ==
    [inf |-> FALSE,
     num |-> SumSeq([k \in 1..Min(Len(frame1_data), Len(frame2_data)) |->
                       Abs(frame1_data[k] - frame2_data[k])]),
     den |-> Len(frame1_data)]

calculate_frame_difference(frame1_data, frame2_data) ==
    IF Len(frame1_data) # Len(frame2_data) THEN Inf
    ELSE [inf |-> FALSE,
          num |-> SumSeq([k \in 1..Len(frame1_data) |->
                            Abs(frame1_data[k] - frame2_data[k])]),
          den |-> Len(frame1_data)]

\* the comparison written as diff >= threshold
diff_ge(diff, thr) ==
    IF diff.inf THEN TRUE
    ELSE IF thr.inf THEN FALSE
    ELSE diff.num * thr.den >= thr.num * diff.den

\* the comparison with an infinite difference always counted as larger
diff_gt_inf_always(diff, thr) ==
    IF diff.inf THEN TRUE
    ELSE IF thr.inf THEN FALSE
    ELSE diff.num * thr.den > thr.num * diff.den

\* the comparison reversed: diff < threshold
diff_lt(diff, thr) ==
    IF diff.inf THEN FALSE
    ELSE IF thr.inf THEN TRUE
    ELSE diff.num * thr.den < thr.num * diff.den

\* diff > threshold on floats
diff_gt(diff, thr) ==
    IF diff.inf THEN ~ thr.inf
    ELSE IF thr.inf THEN FALSE
    ELSE diff.num * thr.den > thr.num * diff.den

\* sorted(keys)
RECURSIVE sorted(_)
sorted(S) ==
    IF S = {} THEN <<>>
    ELSE LET m == CHOOSE x \in S : \A y \in S : x <= y
         IN  <<m>> \o sorted(S \ {m})

\* load_all_frames storing every file, the ones without hex data included
load_all_frames_keep_empty(dir) == dir

\* load_all_frames: a file without hex data is skipped (parse_frame_file
\* returns None), every other file is stored under its frame number
load_all_frames(dir) ==
    [n \in {m \in DOMAIN dir : dir[m] # <<>>} |-> dir[n]]

\* the for loop of group_frames_by_similarity, i the 1-based index
RECURSIVE group_loop(_, _, _, _, _, _)
group_loop(fr, frame_numbers, i, thr, gs, current_group) ==
    IF i > Len(frame_numbers)
    THEN IF current_group # <<>> THEN Append(gs, current_group) ELSE gs
    ELSE LET prev_frame == frame_numbers[i - 1]
             curr_frame == frame_numbers[i]
             diff == calculate_frame_difference(fr[prev_frame], fr[curr_frame])
         IN  IF diff_gt(diff, thr)
             THEN group_loop(fr, frame_numbers, i + 1, thr,
                             Append(gs, current_group), <<curr_frame>>)
             ELSE group_loop(fr, frame_numbers, i + 1, thr,
                             gs, Append(current_group, curr_frame))

IndexError == "IndexError"

\* group_frames_by_similarity without "Add last group" (lines 191-193 dropped)
group_frames_by_similarity_nolast(fr, thr) ==
    LET frame_numbers == sorted(DOMAIN fr)
        all == group_loop(fr, frame_numbers, 2, thr, <<>>, <<frame_numbers[1]>>)
    IN  IF frame_numbers = <<>> THEN [raised |-> IndexError, groups |-> <<>>]
        ELSE [raised |-> None, groups |-> SubSeq(all, 1, Len(all) - 1)]

\* the groups returned for the frame table fr (frame_numbers[0] raises
\* IndexError when the table is empty)
group_frames_by_similarity(fr, thr) ==
    LET frame_numbers == sorted(DOMAIN fr)
    IN  IF frame_numbers = <<>> THEN [raised |-> IndexError, groups |-> <<>>]
        ELSE [raised |-> None,
              groups |-> group_loop(fr, frame_numbers, 2, thr, <<>>,
                                    <<frame_numbers[1]>>)]

(***************************************************************************)
(* FrameAnalyzer.bytes_to_image and bytes_to_image_horizontal.  img_array  *)
(* starts as zeros; byte_idx advances by one in every iteration as long as *)
(* it is below len(byte_array), so the iteration (page, x) reads index     *)
(* page * width + x, and the iteration (y, x_byte) index                   *)
(* y * (width // 8) + x_byte; an iteration whose index is not below        *)
(* len(byte_array) writes nothing.  Rows and columns are 0-based.          *)
(***************************************************************************)
RECURSIVE Pow2(_)
Pow2(k) == IF k = 0 THEN 1 ELSE 2 * Pow2(k - 1)

\* byte_val & (1 << k) is non-zero
BitSet(byte_val, k) == (byte_val \div Pow2(k)) % 2 = 1

\* the vertical drawing with the most significant bit at the top of a page
bytes_to_image_msb(ba) ==
    [raised |-> None,
     img_array |->
        [y \in 0..(height - 1) |-> [x \in 0..(width - 1) |->
            LET page == y \div 8
                bit == y % 8
                byte_idx == page * width + x
            IN  IF /\ page < height \div 8
                   /\ byte_idx < Len(ba)
                   /\ BitSet(ba[byte_idx + 1], 7 - bit)
                THEN 255 ELSE 0]]]

bytes_to_image(ba) ==
    [raised |-> None,
     img_array |->
        [y \in 0..(height - 1) |-> [x \in 0..(width - 1) |->
            LET page == y \div 8
                bit == y % 8
                byte_idx == page * width + x
            IN  IF /\ page < height \div 8
                   /\ byte_idx < Len(ba)
                   /\ BitSet(ba[byte_idx + 1], bit)
                THEN 255 ELSE 0]]]

\* the horizontal drawing with the least significant bit leftmost
bytes_to_image_horizontal_lsb(ba) ==
    [raised |-> None,
     img_array |->
        [y \in 0..(height - 1) |-> [x \in 0..(width - 1) |->
            LET x_byte == x \div 8
                bit == x % 8
                byte_idx == y * (width \div 8) + x_byte
            IN  IF /\ x_byte < width \div 8
                   /\ byte_idx < Len(ba)
                   /\ BitSet(ba[byte_idx + 1], bit)
                THEN 255 ELSE 0]]]

bytes_to_image_horizontal(ba) ==
    [raised |-> None,
     img_array |->
        [y \in 0..(height - 1) |-> [x \in 0..(width - 1) |->
            LET x_byte == x \div 8
                bit == x % 8
                byte_idx == y * (width \div 8) + x_byte
            IN  IF /\ x_byte < width \div 8
                   /\ byte_idx < Len(ba)
                   /\ BitSet(ba[byte_idx + 1], 7 - bit)
                THEN 255 ELSE 0]]]

\* the copy of bytes_to_image_horizontal in Frame Grouper 2.py
grouper_bytes_to_image_horizontal(ba) ==
    [raised |-> None,
     img_array |->
        [y \in 0..(height - 1) |-> [x \in 0..(width - 1) |->
            LET x_byte == x \div 8
                bit == x % 8
                byte_idx == y * (width \div 8) + x_byte
            IN  IF /\ x_byte < width \div 8
                   /\ byte_idx < Len(ba)
                   /\ BitSet(ba[byte_idx + 1], 7 - bit)
                THEN 255 ELSE 0]]]

(***************************************************************************)
(* ManualFrameSelector (Frame Grouper 2.py).  The text of an entry is a    *)
(* sequence of characters; int() accepts decimal digits with blanks around *)
(* them and raises ValueError on anything else the entries of the model    *)
(* can hold.                                                               *)
(***************************************************************************)
Digits == <<"0", "1", "2", "3", "4", "5", "6", "7", "8", "9">>
IsDigit(ch) == \E k \in 1..Len(Digits) : Digits[k] = ch
DigitVal(ch) == (CHOOSE k \in 1..Len(Digits) : Digits[k] = ch) - 1

RECURSIVE lstrip(_)
lstrip(t) == IF Len(t) > 0 /\ t[1] = " " THEN lstrip(Tail(t)) ELSE t

RECURSIVE rstrip(_)
rstrip(t) ==
    IF Len(t) > 0 /\ t[Len(t)] = " " THEN rstrip(SubSeq(t, 1, Len(t) - 1)) ELSE t

\* str.strip()
strip(t) == rstrip(lstrip(t))

RECURSIVE digits_value(_)
digits_value(t) ==
    IF Len(t) = 0 THEN 0
    ELSE digits_value(SubSeq(t, 1, Len(t) - 1)) * 10 + DigitVal(t[Len(t)])

\* int(text): ok is FALSE when int raises ValueError
int_text(t) ==
    LET u == strip(t)
    IN  IF Len(u) > 0 /\ \A k \in 1..Len(u) : IsDigit(u[k])
        THEN [ok |-> TRUE, val |-> digits_value(u)]
        ELSE [ok |-> FALSE, val |-> 0]

\* text.split(',')
RECURSIVE split_comma(_)
split_comma(t) ==
    IF \A k \in 1..Len(t) : t[k] # ","
    THEN <<t>>
    ELSE LET i == CHOOSE k \in 1..Len(t) :
                     t[k] = "," /\ \A j \in 1..(k - 1) : t[j] # ","
         IN  <<SubSeq(t, 1, i - 1)>> \o split_comma(SubSeq(t, i + 1, Len(t)))

\* list.sort() on a list of ints
RECURSIVE list_sort(_)
list_sort(l) ==
    IF Len(l) = 0 THEN <<>>
    ELSE LET i == CHOOSE k \in 1..Len(l) : \A j \in 1..Len(l) : l[k] <= l[j]
         IN  <<l[i]>> \o list_sort(SubSeq(l, 1, i - 1) \o SubSeq(l, i + 1, Len(l)))

InList(x, l) == \E k \in 1..Len(l) : l[k] = x

\* the append loop with the test "not in self.selected_frames" left out
RECURSIVE append_available_dup(_, _, _, _)
append_available_dup(sel, available_frames, frame_list, k) ==
    IF k > Len(frame_list) THEN sel
    ELSE IF frame_list[k] \in available_frames
    THEN append_available_dup(Append(sel, frame_list[k]), available_frames,
                              frame_list, k + 1)
    ELSE append_available_dup(sel, available_frames, frame_list, k + 1)

\* the append loop of add_range and add_individual over frame_list[k..]
RECURSIVE append_available(_, _, _, _)
append_available(sel, available_frames, frame_list, k) ==
    IF k > Len(frame_list) THEN sel
    ELSE IF frame_list[k] \in available_frames /\ ~ InList(frame_list[k], sel)
    THEN append_available(Append(sel, frame_list[k]), available_frames,
                          frame_list, k + 1)
    ELSE append_available(sel, available_frames, frame_list, k + 1)

RangeError == "Start frame must be less than or equal to end frame"
RangeValueError == "Please enter valid frame numbers"
IndividualValueError == "Please enter valid frame numbers separated by commas"

\* add_range: the new selected_frames and the error dialog shown, if any
add_range(sel, available_frames, start_text, end_text) ==
    LET start == int_text(start_text)
        end == int_text(end_text)
    IN  IF ~ start.ok \/ ~ end.ok
        THEN [selected_frames |-> sel, messagebox |-> RangeValueError]
        ELSE IF start.val > end.val
        THEN [selected_frames |-> sel, messagebox |-> RangeError]
        ELSE [selected_frames |->
                  list_sort(append_available(sel, available_frames,
                      [k \in 1..(end.val - start.val + 1) |-> start.val + k - 1],
                      1)),
              messagebox |-> None]

\* add_individual: the list comprehension is evaluated before the first
\* append, so a ValueError in it leaves selected_frames as it was
add_individual(sel, available_frames, frames_text) ==
    LET parts == split_comma(frames_text)
        kept == SelectSeq(parts, LAMBDA f : Len(strip(f)) > 0)
        parsed == [k \in 1..Len(kept) |-> int_text(strip(kept[k]))]
    IN  IF \E k \in 1..Len(parsed) : ~ parsed[k].ok
        THEN [selected_frames |-> sel, messagebox |-> IndividualValueError]
        ELSE [selected_frames |->
                  list_sort(append_available(sel, available_frames,
                      [k \in 1..Len(parsed) |-> parsed[k].val], 1)),
              messagebox |-> None]

(***************************************************************************)
(* Inputs                                                                  *)
(***************************************************************************)
ByteVals == {0, 170, 255}
RunLens == {1, 2, 254, 255, 256, MaxRunLen}
Blocks == {Repeat(n, v) : n \in RunLens, v \in ByteVals}
CodecInputs == {Concat(bs) : bs \in SeqUpTo(Blocks, MaxRuns)}

\* frames of the pipeline: 0x00 and 0xA5 (two different nibbles); the frames
\* of one animation may differ in length, generate_header does not check it
PipeBytes == {0, 165}
PipeFrames == SeqUpTo(PipeBytes, MaxFrameLen)
\* positive frame rates (fps = 0 makes generate_header divide by zero); the
\* last one does not fit in 16 bits
FpsVals == {10, 300, 65536}

\* a header found on disk holds all five sections the regular expressions
\* look for; their numbers, sizes and frame arrays are unrelated
DiskNumbers == {0, 1, 2, 65536}
DiskArrays == SeqUpTo({hex_literal(b) : b \in PipeBytes}, 2)

\* a slot read back from flash may hold any bytes: counts 0, 1, 2 and 255
\* (the same numbers serve as values), in any number, odd ones included
SlotBytes == {0, 1, 2, 255}
SlotInputs == SeqUpTo(SlotBytes, MaxSlotLen)
\* the frame the caller's buffer is sized for (bytes_per_frame zero bytes)
BufferFrames == {Repeat(n, 0) : n \in 0..MaxBufLen}

SegData == {<<>>, <<0, 0>>, <<0, 20>>, <<4, 0>>, <<0, 40>>, <<7>>}
Thresholds == {Float(0), Float(2), Float(10), Inf}
FrameDirs == UNION {[S -> SegData] : S \in SUBSET (1..MaxFrameNum)}

\* buffers to draw: zeros with one marked byte, of the bitmap's length or up
\* to MaxLenDiff bytes shorter or longer.  The marked positions (0-based) are
\* the first bytes, the ends of the first row and of the first page, the last
\* byte of the bitmap and the bytes after it.
ImgLens == {(width * height) \div 8 + d : d \in (0 - MaxLenDiff)..MaxLenDiff}
ImgMarks == {0, 1, 15, 16, 127, 128, (width * height) \div 8 - 1,
             (width * height) \div 8}
ImgBytes == {1, 128, 165}
ImgInputs ==
    {[k \in 1..n |-> IF k = m + 1 THEN v ELSE 0] :
        n \in ImgLens, m \in ImgMarks, v \in ImgBytes}

\* what the user types: frame numbers inside and outside the table, a letter,
\* blanks and commas
RangeTexts == {<<>>, <<"1">>, <<"2">>, <<"3">>, <<" ", "4">>, <<"1", "0">>,
               <<"x">>, <<"2", "x">>}
EntryChars == {"1", "3", "5", ",", " ", "x"}
FramesTexts == SeqUpTo(EntryChars, MaxEntryLen)
\* the analyzer's frame table when the selector is opened
SelTables == UNION {[S -> {<<0>>}] : S \in SUBSET (1..MaxFrameNum)}

\* the animations a run of main goes through
Animations == SubSeq(ANIMATIONS, 1, MaxAnims)
AnimNames == {Animations[k] : k \in 1..Len(Animations)}
\* a header next to the script: missing, written by generate_header (the
\* one with fps 65536 makes struct.pack raise), or lacking its FPS constant
MainHeaders ==
    {NoHeader,
     [exists |-> TRUE, content |-> generate_header(<<<<0, 165>>>>, 10)],
     [exists |-> TRUE, content |-> generate_header(<<<<0>>, <<165>>>>, 300)],
     [exists |-> TRUE, content |-> generate_header(<<<<0, 165>>>>, 65536)],
     [exists |-> TRUE,
      content |-> [generate_header(<<<<0, 165>>>>, 10) EXCEPT !.FPS = <<>>]]}
\* the manifest and the container an earlier run of main left in data/
StaleManifest ==
    create_manifest(<<[name |-> ANIMATIONS[1],
                       info |-> parse_header_file(
                                  generate_header(<<<<165, 165>>>>, 10))]>>)
StaleAnim ==
    [exists |-> TRUE,
     bytes |-> create_binary_file(parse_header_file(
                   generate_header(<<<<165, 165>>>>, 10))).bytes]

(***************************************************************************)
(* Codec run: compress one frame, then run the generated decompressor      *)
(* into a buffer of len(frame) bytes.                                      *)
(***************************************************************************)
InitRLE ==
    /\ pc = "rle_start"
    /\ data \in CodecInputs
    /\ compressed = None
    /\ output = None
    /\ frames = None /\ fps = None /\ header_file = NoFile
    /\ anim_data = None /\ anim_file = NoFile
    /\ self_frames = <<>> /\ frames_dir = <<>> /\ threshold = None /\ groups = None
    /\ OtherToolsIdle

Compress ==
    /\ pc = "rle_start"
    /\ compressed' = rle_compress(data)
    /\ pc' = "rle_compressed"
    /\ UNCHANGED <<data, output, pipeVars, segVars, otherVars>>

Decompress ==
    /\ pc = "rle_compressed"
    /\ \E past \in ByteVals :
         output' = decompress(compressed, Len(compressed), Len(data), past)
    /\ pc' = "rle_done"
    /\ UNCHANGED <<data, compressed, pipeVars, segVars, otherVars>>

NextRLE == Compress \/ Decompress

SpecRLE == InitRLE /\ [][NextRLE]_vars

(***************************************************************************)
(* Decoder run: the generated decompressor is handed a slot as it is read  *)
(* back from storage, whatever it holds, and a buffer of bytes_per_frame   *)
(* bytes (the length of data).                                             *)
(***************************************************************************)
InitDecode ==
    /\ pc = "rle_compressed"
    /\ data \in BufferFrames
    /\ compressed \in SlotInputs
    /\ output = None
    /\ frames = None /\ fps = None /\ header_file = NoFile
    /\ anim_data = None /\ anim_file = NoFile
    /\ self_frames = <<>> /\ frames_dir = <<>> /\ threshold = None /\ groups = None
    /\ OtherToolsIdle

NextDecode == Decompress

SpecDecode == InitDecode /\ [][NextDecode]_vars

(***************************************************************************)
(* Encode pipeline: generate_header writes <name>.h, the converter parses  *)
(* it and writes <name>.anim.                                              *)
(***************************************************************************)
Init ==
    /\ pc = "start"
    /\ frames \in SeqUpTo(PipeFrames, MaxFrames)
    /\ fps \in FpsVals
    /\ header_file = NoFile
    /\ anim_data = None
    /\ anim_file = NoFile
    /\ data = None /\ compressed = None /\ output = None
    /\ self_frames = <<>> /\ frames_dir = <<>> /\ threshold = None /\ groups = None
    /\ OtherToolsIdle

GenerateHeader ==
    /\ pc = "start"
    /\ header_file' = generate_header(frames, fps)
    /\ pc' = "header"
    /\ UNCHANGED <<frames, fps, anim_data, anim_file, rleVars, segVars, otherVars>>

ParseHeaderFile ==
    /\ pc = "header"
    /\ anim_data' = parse_header_file(header_file)
    /\ pc' = "parsed"
    /\ UNCHANGED <<frames, fps, header_file, anim_file, rleVars, segVars, otherVars>>

CreateBinaryFile ==
    /\ pc = "parsed"
    /\ LET r == create_binary_file(anim_data)
       IN  /\ anim_file' = r.bytes
           /\ pc' = IF r.raised THEN "raised" ELSE "written"
    /\ UNCHANGED <<frames, fps, header_file, anim_data, rleVars, segVars, otherVars>>

Next == GenerateHeader \/ ParseHeaderFile \/ CreateBinaryFile

Spec == Init /\ [][Next]_vars

(***************************************************************************)
(* Converter run on a header file that is already on disk.                 *)
(***************************************************************************)
InitDisk ==
    /\ pc = "header"
    /\ header_file \in
          [FRAME_COUNT : {str_int(n) : n \in DiskNumbers},
           FPS : {str_int(10)},
           UNCOMPRESSED_SIZE : {str_int(MaxFrameLen)},
           MAX_COMPRESSED_SIZE : {str_int(n) : n \in DiskNumbers},
           frame_sizes : SeqUpTo({str_int(n) : n \in {2, 65536}}, MaxArrays),
           frames : SeqUpTo(DiskArrays, MaxArrays)]
    /\ frames = None /\ fps = None
    /\ anim_data = None
    /\ anim_file = NoFile
    /\ data = None /\ compressed = None /\ output = None
    /\ self_frames = <<>> /\ frames_dir = <<>> /\ threshold = None /\ groups = None
    /\ OtherToolsIdle

NextDisk == ParseHeaderFile \/ CreateBinaryFile

SpecDisk == InitDisk /\ [][NextDisk]_vars

(***************************************************************************)
(* Analyzer run: frames are loaded from the directory, then grouped.       *)
(***************************************************************************)
InitSeg ==
    /\ pc = "seg_start"
    /\ frames_dir \in FrameDirs
    /\ self_frames = <<>>
    /\ threshold = None
    /\ groups = None
    /\ data = None /\ compressed = None /\ output = None
    /\ frames = None /\ fps = None /\ header_file = NoFile
    /\ anim_data = None /\ anim_file = NoFile
    /\ OtherToolsIdle

LoadAllFrames ==
    /\ pc = "seg_start"
    /\ DOMAIN self_frames = {}
    /\ self_frames' = load_all_frames(frames_dir)
    /\ UNCHANGED <<pc, frames_dir, threshold, groups, rleVars, pipeVars, otherVars>>

GroupFramesBySimilarity ==
    /\ pc = "seg_start"
    /\ \E thr \in Thresholds :
         LET fr == IF DOMAIN self_frames = {} THEN load_all_frames(frames_dir)
                   ELSE self_frames
         IN  /\ threshold' = thr
             /\ self_frames' = fr
             /\ groups' = group_frames_by_similarity(fr, thr)
    /\ pc' = "seg_done"
    /\ UNCHANGED <<frames_dir, rleVars, pipeVars, otherVars>>

NextSeg == LoadAllFrames \/ GroupFramesBySimilarity

SpecSeg == InitSeg /\ [][NextSeg]_vars

(***************************************************************************)
(* Drawing run: one buffer is drawn by one of the drawing functions.       *)
(***************************************************************************)
InitImg ==
    /\ pc = "img_start"
    /\ byte_array \in ImgInputs
    /\ img = None
    /\ data = None /\ compressed = None /\ output = None
    /\ frames = None /\ fps = None /\ header_file = NoFile
    /\ anim_data = None /\ anim_file = NoFile
    /\ self_frames = <<>> /\ frames_dir = <<>> /\ threshold = None /\ groups = None
    /\ SelIdle /\ MainIdle

BytesToImage ==
    /\ pc = "img_start"
    /\ img' = bytes_to_image(byte_array)
    /\ pc' = "img_vertical"
    /\ UNCHANGED <<byte_array, rleVars, pipeVars, segVars, selVars, mainVars>>

BytesToImageHorizontal ==
    /\ pc = "img_start"
    /\ img' = bytes_to_image_horizontal(byte_array)
    /\ pc' = "img_horizontal"
    /\ UNCHANGED <<byte_array, rleVars, pipeVars, segVars, selVars, mainVars>>

GrouperBytesToImageHorizontal ==
    /\ pc = "img_start"
    /\ img' = grouper_bytes_to_image_horizontal(byte_array)
    /\ pc' = "img_horizontal_grouper"
    /\ UNCHANGED <<byte_array, rleVars, pipeVars, segVars, selVars, mainVars>>

NextImg == BytesToImage \/ BytesToImageHorizontal \/ GrouperBytesToImageHorizontal

SpecImg == InitImg /\ [][NextImg]_vars

(***************************************************************************)
(* Selector run: the buttons "Add Range", "Add Frames" and "Clear All" are *)
(* pressed in any order, with any text in the entries.                     *)
(***************************************************************************)
InitSel ==
    /\ pc = "selector"
    /\ self_frames \in SelTables
    /\ selected_frames = <<>>
    /\ messagebox = None
    /\ frames_dir = <<>> /\ threshold = None /\ groups = None
    /\ data = None /\ compressed = None /\ output = None
    /\ frames = None /\ fps = None /\ header_file = NoFile
    /\ anim_data = None /\ anim_file = NoFile
    /\ ImgIdle /\ MainIdle

AddRange ==
    /\ pc = "selector"
    /\ \E start_text, end_text \in RangeTexts :
         LET r == add_range(selected_frames, DOMAIN self_frames,
                            start_text, end_text)
         IN  /\ selected_frames' = r.selected_frames
             /\ messagebox' = r.messagebox
    /\ UNCHANGED <<pc, rleVars, pipeVars, segVars, imgVars, mainVars>>

AddIndividual ==
    /\ pc = "selector"
    /\ \E frames_text \in FramesTexts :
         LET r == add_individual(selected_frames, DOMAIN self_frames, frames_text)
         IN  /\ selected_frames' = r.selected_frames
             /\ messagebox' = r.messagebox
    /\ UNCHANGED <<pc, rleVars, pipeVars, segVars, imgVars, mainVars>>

ClearSelection ==
    /\ pc = "selector"
    /\ selected_frames' = <<>>
    /\ messagebox' = None
    /\ UNCHANGED <<pc, rleVars, pipeVars, segVars, imgVars, mainVars>>

NextSel == AddRange \/ AddIndividual \/ ClearSelection

SpecSel == InitSel /\ [][NextSel]_vars

(***************************************************************************)
(* Converter run: main goes through the animations, then writes the        *)
(* manifest.  data/ is empty or holds what an earlier run left there       *)
(* (os.makedirs(output_dir, exist_ok=True)).                               *)
(***************************************************************************)
InitMain ==
    /\ pc = "main_loop"
    /\ script_dir \in [AnimNames -> MainHeaders]
    /\ \/ /\ output_dir = [n \in AnimNames |-> NoAnim]
          /\ manifest_file = NoManifest
       \/ /\ output_dir = [n \in AnimNames |->
                              IF n = ANIMATIONS[1] THEN StaleAnim ELSE NoAnim]
          /\ manifest_file = StaleManifest
    /\ animations_info = <<>>
    /\ anim_idx = 1
    /\ data = None /\ compressed = None /\ output = None
    /\ frames = None /\ fps = None /\ header_file = NoFile
    /\ anim_data = None /\ anim_file = NoFile
    /\ self_frames = <<>> /\ frames_dir = <<>> /\ threshold = None /\ groups = None
    /\ ImgIdle /\ SelIdle

\* one iteration of "for anim_name in ANIMATIONS"
ConvertAnimation ==
    /\ pc = "main_loop"
    /\ anim_idx <= Len(Animations)
    /\ LET anim_name == Animations[anim_idx]
           hf == script_dir[anim_name]
       IN  IF ~ hf.exists
           THEN UNCHANGED <<output_dir, animations_info>>
           ELSE IF parse_header_file_raises(hf.content)
           THEN UNCHANGED <<output_dir, animations_info>>
           ELSE LET ad == parse_header_file(hf.content)
                    r == create_binary_file(ad)
                IN  /\ output_dir' = [output_dir EXCEPT ![anim_name] =
                                         [exists |-> TRUE, bytes |-> r.bytes]]
                    /\ animations_info' =
                          IF r.raised THEN animations_info
                          ELSE Append(animations_info,
                                      [name |-> anim_name, info |-> ad])
    /\ anim_idx' = anim_idx + 1
    /\ UNCHANGED <<pc, script_dir, manifest_file, rleVars, pipeVars, segVars,
                   imgVars, selVars>>

\* after the loop: "if animations_info: create_manifest(...)"
CreateManifest ==
    /\ pc = "main_loop"
    /\ anim_idx > Len(Animations)
    /\ manifest_file' = IF Len(animations_info) > 0
                        THEN create_manifest(animations_info)
                        ELSE manifest_file
    /\ pc' = "main_done"
    /\ UNCHANGED <<script_dir, output_dir, animations_info, anim_idx, rleVars,
                   pipeVars, segVars, imgVars, selVars>>

NextMain == ConvertAnimation \/ CreateManifest

SpecMain == InitMain /\ [][NextMain]_vars

(***************************************************************************)
(* Reading a container, as the layout of the .anim file prescribes.        *)
(***************************************************************************)
\* the unsigned 16-bit little-endian integer at byte offset off (0-based)
u16_at(b, off) == b[off + 1] + 256 * b[off + 2]

file_frame_count == u16_at(anim_file, 0)
file_fps == u16_at(anim_file, 2)
file_max_compressed_size == u16_at(anim_file, 4)
file_table(i) == u16_at(anim_file, 12 + 2 * i)
slot_offset(i) == 12 + 2 * file_frame_count + i * file_max_compressed_size
\* n bytes of the file from byte offset off (0-based)
file_bytes(off, n) == SubSeq(anim_file, off + 1, off + n)

EqualLength(fs) == \A i, j \in 1..Len(fs) : Len(fs[i]) = Len(fs[j])

IsByte(x) == x \in 0..255

\* the counts of a compressed frame: its bytes at even 0-based positions
Counts(c) == {c[k] : k \in {j \in 1..Len(c) : j % 2 = 1}}

(***************************************************************************)
(* C1  RLE round trip: decompressing rle_compress(f) with the generated    *)
(* routine into a buffer of len(f) bytes stores exactly the bytes of f,    *)
(* with no store outside the buffer and no load past the compressed data.  *)
(***************************************************************************)
C1_RoundTrip ==
    pc = "rle_done" =>
        /\ output.out = data
        /\ output.out_idx = Len(data)
        /\ ~ output.oob_store
        /\ ~ output.oob_load

\* a frame with a run longer than 255 went through the round trip
C1_Witness ==
    /\ pc = "rle_done"
    /\ Len(data) > 255
    /\ Len(compressed) >= 4
    /\ compressed[1] = 255 /\ compressed[2] = compressed[4]
    /\ output.out = data

(***************************************************************************)
(* C10  Run count range: every count byte rle_compress emits is in 1..255. *)
(***************************************************************************)
C10_CountRange ==
    pc \in {"rle_compressed", "rle_done"} =>
        \A n \in Counts(compressed) : n >= 1 /\ n <= 255

\* a run of more than 255 equal bytes was compressed: a count reached the cap
C10_Witness ==
    /\ pc = "rle_compressed"
    /\ Len(data) > 255
    /\ 255 \in Counts(compressed)
    /\ \E k \in 1..(Len(data) - 255) : \A j \in k..(k + 255) : data[j] = data[k]

(***************************************************************************)
(* C4  Segmenter partition: for a non-empty frame table the returned       *)
(* groups are non-empty and their concatenation, in order, is the sorted   *)
(* sequence of frame numbers (so they are contiguous runs of it, pairwise  *)
(* disjoint, and cover it).                                                *)
(***************************************************************************)
C4_Partition ==
    (pc = "seg_done" /\ groups.raised = None) =>
        /\ \A g \in 1..Len(groups.groups) : groups.groups[g] # <<>>
        /\ Concat(groups.groups) = sorted(DOMAIN self_frames)

\* a table of at least three frames was split into several groups, one of
\* them holding more than one frame
C4_Witness ==
    /\ pc = "seg_done"
    /\ groups.raised = None
    /\ Cardinality(DOMAIN self_frames) >= 3
    /\ Len(groups.groups) >= 2
    /\ \E g \in 1..Len(groups.groups) : Len(groups.groups[g]) >= 2

(***************************************************************************)
(* C5  Segment boundary rule: a group starts at the k-th frame number      *)
(* (k > 1) exactly when the mean absolute byte difference between frame    *)
(* k-1 and frame k is strictly greater than the threshold.                 *)
(***************************************************************************)
\* sum of |a_i - b_i| over two buffers of equal length
SumAbsDiff(a, b) == SumSeq([k \in 1..Len(a) |-> Abs(a[k] - b[k])])

\* distance(a, b) > thr, the distance of buffers of unequal length being
\* +infinity
DistanceExceeds(a, b, thr) ==
    IF thr.inf THEN FALSE
    ELSE IF Len(a) # Len(b) THEN TRUE
    ELSE SumAbsDiff(a, b) * thr.den > thr.num * Len(a)

GroupStarts == {groups.groups[g][1] : g \in 2..Len(groups.groups)}

C5_BoundaryRule ==
    (pc = "seg_done" /\ groups.raised = None) =>
        LET fn == sorted(DOMAIN self_frames)
        IN  \A k \in 2..Len(fn) :
                fn[k] \in GroupStarts <=>
                    DistanceExceeds(self_frames[fn[k - 1]], self_frames[fn[k]],
                                    threshold)

\* three frames stay in one group although the third is farther than the
\* threshold from the group's first frame, the consecutive distances being
\* equal to the threshold; and a later frame opens a new group
C5_Witness ==
    /\ pc = "seg_done"
    /\ groups.raised = None
    /\ threshold = Float(10)
    /\ Len(groups.groups) >= 2
    /\ Len(groups.groups[1]) >= 3
    /\ LET g == groups.groups[1]
       IN  /\ SumAbsDiff(self_frames[g[1]], self_frames[g[2]]) = 10 * 2
           /\ SumAbsDiff(self_frames[g[2]], self_frames[g[3]]) = 10 * 2
           /\ DistanceExceeds(self_frames[g[1]], self_frames[g[3]], threshold)

(***************************************************************************)
(* The encoder's own values for the animation in frames.                   *)
(***************************************************************************)
CompressedFrame(i) == rle_compress(frames[i + 1])

EncoderMaxSize ==
    LET sizes == {Len(rle_compress(frames[k])) : k \in 1..Len(frames)}
    IN  IF sizes = {} THEN 0 ELSE CHOOSE m \in sizes : \A x \in sizes : x <= m

(***************************************************************************)
(* C2  Container round trip: for a non-empty list of equal-length frames,  *)
(* reading table[i] bytes at the slot offset of i from the written file    *)
(* and decompressing them yields frames[i], for every i < frame_count.     *)
(***************************************************************************)
C2_ContainerRoundTrip ==
    (pc = "written" /\ frames # <<>> /\ EqualLength(frames)) =>
        /\ file_frame_count = Len(frames)
        /\ \A i \in 0..(file_frame_count - 1) : \A past \in PipeBytes :
              LET r == decompress(file_bytes(slot_offset(i), file_table(i)),
                                  file_table(i), Len(frames[i + 1]), past)
              IN  /\ r.out = frames[i + 1]
                  /\ r.out_idx = Len(frames[i + 1])
                  /\ ~ r.oob_store /\ ~ r.oob_load

\* a container of several frames, with a padded slot before the last frame
\* and bytes other than zero in it, was written
C2_Witness ==
    /\ pc = "written"
    /\ Len(frames) >= 2 /\ EqualLength(frames)
    /\ file_table(0) < file_max_compressed_size
    /\ \E k \in 1..Len(frames[Len(frames)]) : frames[Len(frames)][k] = 165

(***************************************************************************)
(* C3  Size invariant: in the written file every size-table entry is at    *)
(* most max_compressed_size, and max_compressed_size is the largest entry. *)
(***************************************************************************)
C3_SizeInvariant ==
    (pc = "written" /\ frames # <<>>) =>
        /\ \A i \in 0..(file_frame_count - 1) :
              file_table(i) <= file_max_compressed_size
        /\ \E i \in 0..(file_frame_count - 1) :
              file_table(i) = file_max_compressed_size

\* the first frame of a written animation is not its largest
C3_Witness ==
    /\ pc = "written"
    /\ Len(frames) >= 2
    /\ file_table(0) < file_table(1)
    /\ file_table(1) = file_max_compressed_size

(***************************************************************************)
(* C6  Container layout: the written file is 12 + 2*frame_count +          *)
(* frame_count*max_compressed_size bytes long and the bytes of frame i     *)
(* start at offset 12 + 2*frame_count + i*max_compressed_size, for every   *)
(* record passed to create_binary_file.                                    *)
(***************************************************************************)
C6_Layout ==
    pc = "written" =>
        LET n == anim_data.frame_count
            m == anim_data.max_compressed_size
        IN  /\ Len(anim_file) = 12 + 2 * n + n * m
            /\ \A i \in 0..(Len(anim_data.frames) - 1) :
                  file_bytes(12 + 2 * n + i * m, Len(anim_data.frames[i + 1]))
                      = anim_data.frames[i + 1]

(***************************************************************************)
(* C7  Slot content: slot i of the written file holds the bytes of         *)
(* CompressedFrame[i] in its first table[i] positions and zero bytes in    *)
(* the remaining positions up to max_compressed_size.                      *)
(***************************************************************************)
C7_SlotContent ==
    pc = "written" =>
        /\ file_frame_count = Len(frames)
        /\ \A i \in 0..(file_frame_count - 1) :
              /\ file_bytes(slot_offset(i), file_table(i)) = CompressedFrame(i)
              /\ file_bytes(slot_offset(i) + file_table(i),
                            file_max_compressed_size - file_table(i))
                    = Repeat(file_max_compressed_size - file_table(i), 0)

\* a slot that needs padding was written
C7_Witness ==
    /\ pc = "written"
    /\ \E i \in 0..(Len(frames) - 1) :
          /\ file_table(i) > 0
          /\ file_table(i) < file_max_compressed_size

(***************************************************************************)
(* C8  Size table alignment: the written file has exactly frame_count      *)
(* size entries and frame_count slots, and entry i is the unpadded         *)
(* compressed length of the frame stored in slot i.                        *)
(***************************************************************************)
C8_TableAlignment ==
    pc = "written" =>
        /\ file_frame_count = Len(frames)
        /\ Len(anim_data.frame_sizes) = file_frame_count
        /\ Len(anim_data.frames) = file_frame_count
        /\ Len(anim_file) = 12 + 2 * file_frame_count
                              + file_frame_count * file_max_compressed_size
        /\ \A i \in 0..(file_frame_count - 1) :
              file_table(i) = Len(CompressedFrame(i))

\* three frames whose compressed lengths differ, so that an entry of
\* another frame or the padded length would be a different number
C8_Witness ==
    /\ pc = "written"
    /\ Len(frames) = 3
    /\ Len(CompressedFrame(0)) < Len(CompressedFrame(1))
    /\ Len(CompressedFrame(2)) < Len(CompressedFrame(1))
    /\ file_table(0) < file_max_compressed_size

(***************************************************************************)
(* C9  Header encoding: the first 12 bytes of a written file are           *)
(* frame_count, fps and max_compressed_size as unsigned 16-bit             *)
(* little-endian integers and 6 zero bytes, every size entry is an         *)
(* unsigned 16-bit little-endian integer, and each stored field reads back *)
(* as the encoder's value; a value that does not fit in 16 bits is not     *)
(* stored at all (the write raises before any byte of it is written).      *)
(***************************************************************************)
le16(v) == <<v % 256, v \div 256>>

C9_HeaderEncoding ==
    /\ pc = "written" =>
          /\ \A k \in 1..Len(anim_file) : IsByte(anim_file[k])
          /\ file_bytes(0, 12) = le16(Len(frames)) \o le16(fps)
                                   \o le16(EncoderMaxSize) \o Repeat(6, 0)
          /\ file_frame_count = Len(frames)
          /\ file_fps = fps
          /\ file_max_compressed_size = EncoderMaxSize
          /\ \A i \in 0..(Len(frames) - 1) :
                /\ file_bytes(12 + 2 * i, 2) = le16(Len(CompressedFrame(i)))
                /\ file_table(i) = Len(CompressedFrame(i))
    /\ pc = "raised" =>
          /\ \E v \in {Len(frames), fps, EncoderMaxSize} : v > 65535
          /\ anim_file = <<>>

\* a header with a field above 255 (its high byte is used) was written
C9_Witness ==
    /\ pc = "written"
    /\ fps = 300
    /\ frames # <<>>
    /\ file_bytes(2, 2) = <<44, 1>>

(***************************************************************************)
(* Reading a compressed frame as its sequence of (count, value) pairs.     *)
(***************************************************************************)
NumPairs(c) == Len(c) \div 2
CountSeq(c) == [j \in 1..NumPairs(c) |-> c[2 * j - 1]]
ValueSeq(c) == [j \in 1..NumPairs(c) |-> c[2 * j]]

\* the frame is n > 255 copies of one byte
LongSingleRun(d) == Len(d) > 255 /\ \A k \in 1..Len(d) : d[k] = d[1]

\* every pair but the last is (255, v), the last is (c, v), counts sum to n
SplitRun(c, d) ==
    /\ Len(c) % 2 = 0
    /\ NumPairs(c) >= 2
    /\ \A j \in 1..NumPairs(c) : ValueSeq(c)[j] = d[1]
    /\ \A j \in 1..(NumPairs(c) - 1) : CountSeq(c)[j] = 255
    /\ SumSeq(CountSeq(c)) = Len(d)

(***************************************************************************)
(* C11  Long-run splitting, as stated: n > 255 equal bytes v compress to   *)
(* one or more (255, v) pairs followed by a final run (c, v) with c < 255, *)
(* the counts summing to n.                                                *)
(***************************************************************************)
C11_SplitFinalShorter ==
    (pc = "rle_compressed" /\ LongSingleRun(data)) =>
        /\ SplitRun(compressed, data)
        /\ CountSeq(compressed)[NumPairs(compressed)] < 255

(***************************************************************************)
(* C11  Long-run splitting, amended: n > 255 equal bytes v compress to one *)
(* or more (255, v) pairs followed by a final run (c, v) with              *)
(* 1 <= c <= 255, the counts summing to n; the final count is 255 exactly  *)
(* when n is a multiple of 255.  256 bytes of 0xAA give [255,0xAA,1,0xAA]. *)
(***************************************************************************)
C11_SplitFinalRun ==
    (pc = "rle_compressed" /\ LongSingleRun(data)) =>
        LET c == CountSeq(compressed)[NumPairs(compressed)]
        IN  /\ SplitRun(compressed, data)
            /\ c >= 1 /\ c <= 255
            /\ (c = 255) <=> (Len(data) % 255 = 0)
            /\ (data = Repeat(256, 170)) => (compressed = <<255, 170, 1, 170>>)

\* 510 equal bytes were compressed into two full runs
C11_Witness ==
    /\ pc = "rle_compressed"
    /\ LongSingleRun(data)
    /\ Len(data) = 510
    /\ compressed = <<255, data[1], 255, data[1]>>

(***************************************************************************)
(* C12  Even output and empty input: the output of rle_compress has even   *)
(* length for every input, and it is empty for the empty input.            *)
(***************************************************************************)
C12_EvenAndEmpty ==
    pc = "rle_compressed" =>
        /\ Len(compressed) % 2 = 0
        /\ (Len(data) = 0) => (compressed = <<>>)

\* the empty frame was compressed, and nothing was flushed
C12_Witness ==
    /\ pc = "rle_compressed"
    /\ data = <<>>
    /\ Len(compressed) = 0

\* no two adjacent bytes of the frame are equal
NoAdjacentEqual(d) == \A k \in 1..(Len(d) - 1) : d[k] # d[k + 1]

(***************************************************************************)
(* C13  Worst-case expansion: len(rle_compress(f)) <= 2 * len(f), with     *)
(* equality exactly when no two adjacent bytes of f are equal.             *)
(***************************************************************************)
C13_Expansion ==
    pc = "rle_compressed" =>
        /\ Len(compressed) <= 2 * Len(data)
        /\ (Len(compressed) = 2 * Len(data)) <=> NoAdjacentEqual(data)

\* a frame of two different bytes was compressed to twice its length
C13_Witness ==
    /\ pc = "rle_compressed"
    /\ Len(data) = 2
    /\ data[1] # data[2]
    /\ Len(compressed) = 4

MalformedRun == "MalformedRun"
LengthMismatch == "LengthMismatch"

(***************************************************************************)
(* C14  Decompression bounded by expected_length: for every compressed     *)
(* input the decompressor stops once expected_length (the buffer length)   *)
(* bytes are produced: the store index never passes the buffer length, no  *)
(* store falls outside the buffer and no load is at or past                *)
(* compressed_size.                                                        *)
(***************************************************************************)
C14_BoundedByExpectedLength ==
    pc = "rle_done" =>
        /\ output.out_idx <= Len(data)
        /\ ~ output.oob_store
        /\ ~ output.oob_load

(***************************************************************************)
(* C15  Odd-length rejection: decompressing a buffer of odd length fails   *)
(* with MalformedRun, and no count is consumed without its value byte.     *)
(***************************************************************************)
C15_OddRejected ==
    (pc = "rle_done" /\ Len(compressed) % 2 = 1) =>
        /\ output.raised = MalformedRun
        /\ ~ output.oob_load

(***************************************************************************)
(* C16  Length check: decompressing a buffer of even length fails with     *)
(* LengthMismatch exactly when the run counts do not sum to                *)
(* expected_length, and returns a frame only when they do.                 *)
(***************************************************************************)
C16_LengthChecked ==
    (pc = "rle_done" /\ Len(compressed) % 2 = 0) =>
        IF SumSeq(CountSeq(compressed)) # Len(data)
        THEN output.raised = LengthMismatch
        ELSE output.raised = None /\ Len(output.out) = Len(data)

(***************************************************************************)
(* What a run of the encode pipeline has put on disk.                      *)
(***************************************************************************)
HeaderWritten == pc \in {"header", "parsed", "written", "raised"}
ContainerWritten == pc = "written"

(***************************************************************************)
(* C17  Empty animation rejected: encoding an empty frame list fails, so   *)
(* that neither a header nor a container is written for it.                *)
(***************************************************************************)
C17_EmptyRejected ==
    (Len(frames) = 0) => (~ HeaderWritten /\ ~ ContainerWritten)

(***************************************************************************)
(* C18  Inconsistent frame size rejected: encoding a frame list in which   *)
(* two frames differ in length fails, so that no header recording the      *)
(* first frame's length is written for it.                                 *)
(***************************************************************************)
C18_InconsistentRejected ==
    (~ EqualLength(frames)) => ~ HeaderWritten

EmptyInput == "EmptyInput"

(***************************************************************************)
(* C19  Empty segmenter input: grouping an empty frame table fails with    *)
(* EmptyInput (and not by indexing element 0 of the empty list of frame    *)
(* numbers).                                                               *)
(***************************************************************************)
C19_EmptyInput ==
    (pc = "seg_done" /\ DOMAIN self_frames = {}) =>
        groups.raised = EmptyInput

\* the k-th and (k-1)-th frame numbers are held by different groups
Separated(fn, k) == fn[k] \in GroupStarts

(***************************************************************************)
(* C20  Unequal lengths force a boundary, as stated: two consecutive       *)
(* frames whose buffers differ in length are at distance +infinity and are *)
(* placed in different groups, for every threshold.                        *)
(***************************************************************************)
C20_UnequalSplitAlways ==
    (pc = "seg_done" /\ groups.raised = None) =>
        LET fn == sorted(DOMAIN self_frames)
        IN  \A k \in 2..Len(fn) :
                Len(self_frames[fn[k - 1]]) # Len(self_frames[fn[k]]) =>
                    /\ calculate_frame_difference(self_frames[fn[k - 1]],
                                                  self_frames[fn[k]]) = Inf
                    /\ Separated(fn, k)

(***************************************************************************)
(* C20  Unequal lengths force a boundary, amended: two consecutive frames  *)
(* whose buffers differ in length are at distance +infinity, and they are  *)
(* placed in different groups exactly when the threshold is finite; with   *)
(* the threshold +infinity they stay in one group.                         *)
(***************************************************************************)
C20_UnequalSplitFinite ==
    (pc = "seg_done" /\ groups.raised = None) =>
        LET fn == sorted(DOMAIN self_frames)
        IN  \A k \in 2..Len(fn) :
                Len(self_frames[fn[k - 1]]) # Len(self_frames[fn[k]]) =>
                    /\ calculate_frame_difference(self_frames[fn[k - 1]],
                                                  self_frames[fn[k]]) = Inf
                    /\ Separated(fn, k) <=> ~ threshold.inf

\* a one-byte frame follows a two-byte frame whose bytes are closer to it
\* than the threshold, and a new group starts at it
C20_Witness ==
    /\ pc = "seg_done"
    /\ groups.raised = None
    /\ threshold = Float(10)
    /\ \E k \in 2..Len(sorted(DOMAIN self_frames)) :
          LET fn == sorted(DOMAIN self_frames)
          IN  /\ self_frames[fn[k - 1]] = <<0, 0>>
              /\ self_frames[fn[k]] = <<7>>
              /\ Separated(fn, k)

(***************************************************************************)
(* C21  Infinite threshold: for every non-empty frame table,               *)
(* group_frames_by_similarity with threshold = +infinity returns exactly   *)
(* one group, holding all frame numbers in order.                          *)
(***************************************************************************)
C21_InfiniteThreshold ==
    (pc = "seg_done" /\ groups.raised = None /\ threshold.inf) =>
        groups.groups = <<sorted(DOMAIN self_frames)>>

\* three or more frames, two neighbours of unequal length and two neighbours
\* that differ, were grouped with the infinite threshold into one group
C21_Witness ==
    /\ pc = "seg_done"
    /\ groups.raised = None
    /\ threshold = Inf
    /\ Cardinality(DOMAIN self_frames) >= 3
    /\ Len(groups.groups) = 1
    /\ \E a, b \in DOMAIN self_frames : Len(self_frames[a]) # Len(self_frames[b])

(***************************************************************************)
(* C22  Distance metric: for two stored frames of equal length n,          *)
(* calculate_frame_difference returns (sum of |a_i - b_i|) / n with        *)
(* n >= 1 (the division is defined); it is symmetric, and it is 0 exactly  *)
(* when the two buffers are identical.                                     *)
(***************************************************************************)
C22_DistanceMetric ==
    pc = "seg_done" =>
        \A m, n \in DOMAIN self_frames :
            LET a == self_frames[m]
                b == self_frames[n]
                d == calculate_frame_difference(a, b)
            IN  Len(a) = Len(b) =>
                    /\ ~ d.inf
                    /\ d.den = Len(a) /\ d.den >= 1
                    /\ d.num = SumAbsDiff(a, b)
                    /\ calculate_frame_difference(b, a) = d
                    /\ (d.num = 0) <=> (a = b)

\* two stored frames of two bytes at distance 20 / 2 were compared
C22_Witness ==
    /\ pc = "seg_done"
    /\ groups.raised = None
    /\ \E m, n \in DOMAIN self_frames :
          /\ self_frames[m] = <<0, 0>> /\ self_frames[n] = <<0, 20>>
          /\ n = m + 1
          /\ calculate_frame_difference(self_frames[m], self_frames[n])
                = [inf |-> FALSE, num |-> 20, den |-> 2]

\* the buffer holds exactly one bit per pixel of the bitmap
FullBuffer(ba) == Len(ba) = (width * height) \div 8

\* bit k of the byte at 0-based index idx
BitAt(ba, idx, k) == (ba[idx + 1] \div Pow2(k)) % 2

Lit(im, x, y) == im.img_array[y][x] = 255
Dark(im, x, y) == im.img_array[y][x] = 0

(***************************************************************************)
(* C23  Vertical addressing: for a buffer of width*height/8 bytes,         *)
(* bytes_to_image lights pixel (x, y) if and only if bit (y mod 8) of the  *)
(* byte at index (y div 8)*width + x is 1, and leaves it dark otherwise.   *)
(***************************************************************************)
C23_VerticalAddressing ==
    (pc = "img_vertical" /\ FullBuffer(byte_array)) =>
        \A y \in 0..(height - 1) : \A x \in 0..(width - 1) :
            /\ Lit(img, x, y) <=>
                  BitAt(byte_array, (y \div 8) * width + x, y % 8) = 1
            /\ Lit(img, x, y) \/ Dark(img, x, y)

\* the byte 0xA5 at index 128 was drawn: column 0 of the second page, rows
\* 8, 10, 13 and 15
C23_Witness ==
    /\ pc = "img_vertical"
    /\ FullBuffer(byte_array)
    /\ byte_array[129] = 165
    /\ {y \in 0..(height - 1) : Lit(img, 0, y)} = {8, 10, 13, 15}

(***************************************************************************)
(* C24  Horizontal addressing: for a buffer of width*height/8 bytes,       *)
(* bytes_to_image_horizontal lights pixel (x, y) if and only if bit        *)
(* (7 - x mod 8) of the byte at index y*(width/8) + (x div 8) is 1; the    *)
(* copies in Frame Viewer.py and Frame Grouper 2.py give the same grid.    *)
(***************************************************************************)
C24_HorizontalAddressing ==
    (pc \in {"img_horizontal", "img_horizontal_grouper"}
        /\ FullBuffer(byte_array)) =>
        /\ \A y \in 0..(height - 1) : \A x \in 0..(width - 1) :
              /\ Lit(img, x, y) <=>
                    BitAt(byte_array, y * (width \div 8) + (x \div 8),
                          7 - (x % 8)) = 1
              /\ Lit(img, x, y) \/ Dark(img, x, y)
        /\ img = bytes_to_image_horizontal(byte_array)
        /\ img = grouper_bytes_to_image_horizontal(byte_array)

\* the byte 0xA5 at index 16 was drawn: the first eight pixels of row 1,
\* columns 0, 2, 5 and 7
C24_Witness ==
    /\ pc = "img_horizontal"
    /\ FullBuffer(byte_array)
    /\ byte_array[17] = 165
    /\ {x \in 0..(width - 1) : Lit(img, x, 1)} = {0, 2, 5, 7}

BufferSizeMismatch == "BufferSizeMismatch"

(***************************************************************************)
(* C25  Buffer length validation: drawing a buffer whose length is not     *)
(* width*height/8, under either addressing, fails with BufferSizeMismatch  *)
(* and returns no pixel grid.                                              *)
(***************************************************************************)
C25_BufferSizeChecked ==
    (pc \in {"img_vertical", "img_horizontal", "img_horizontal_grouper"}
        /\ ~ FullBuffer(byte_array)) =>
        img.raised = BufferSizeMismatch

(***************************************************************************)
(* C26  No hidden mutation: a call of group_frames_by_similarity leaves    *)
(* the analyzer's frame table (self.frames) exactly as it was before the   *)
(* call (the step from "seg_start" to "seg_done").                         *)
(***************************************************************************)
C26_NoHiddenMutation ==
    [][(pc = "seg_start" /\ pc' = "seg_done") =>
          /\ DOMAIN self_frames' = DOMAIN self_frames
          /\ \A n \in DOMAIN self_frames : self_frames'[n] = self_frames[n]]_vars

(***************************************************************************)
(* C27  Greedy maximal runs: in the output of rle_compress two adjacent    *)
(* pairs (c1, v1), (c2, v2) have v1 = v2 only if c1 = 255, so every run is *)
(* maximal up to the cap; and the bytes are a function of the frame.       *)
(***************************************************************************)
C27_MaximalRuns ==
    pc = "rle_compressed" =>
        /\ \A j \in 1..(NumPairs(compressed) - 1) :
              ValueSeq(compressed)[j] = ValueSeq(compressed)[j + 1] =>
                  CountSeq(compressed)[j] = 255
        /\ compressed = rle_compress(data)

\* a frame of two different runs, the second one longer than the cap, was
\* compressed: the only adjacent pairs of equal value follow a full run
C27_Witness ==
    /\ pc = "rle_compressed"
    /\ NumPairs(compressed) = 3
    /\ ValueSeq(compressed)[1] # ValueSeq(compressed)[2]
    /\ ValueSeq(compressed)[2] = ValueSeq(compressed)[3]
    /\ CountSeq(compressed)[1] < 255
    /\ CountSeq(compressed)[2] = 255

\* t1 <= t2 on floats
float_le(t1, t2) ==
    IF t2.inf THEN TRUE
    ELSE IF t1.inf THEN FALSE
    ELSE t1.num * t2.den <= t2.num * t1.den

\* the frame numbers at which a group other than the first one starts
StartsOf(gs) == {gs[g][1] : g \in 2..Len(gs)}

\* the group c is the concatenation of consecutive groups of gs
UnionOfConsecutive(c, gs) ==
    \E i \in 1..Len(gs) : \E j \in i..Len(gs) :
        Concat(SubSeq(gs, i, j)) = c

(***************************************************************************)
(* C28  Threshold monotonicity: for one frame table and thresholds         *)
(* t1 <= t2, every group boundary produced with t2 is a boundary produced  *)
(* with t1; the number of groups at t2 is at most that at t1, and each     *)
(* group at t2 is a concatenation of consecutive groups at t1.             *)
(***************************************************************************)
C28_ThresholdMonotone ==
    (pc = "seg_done" /\ groups.raised = None) =>
        \A t1 \in Thresholds :
            float_le(t1, threshold) =>
                LET g1 == group_frames_by_similarity(self_frames, t1).groups
                    g2 == groups.groups
                IN  /\ StartsOf(g2) \subseteq StartsOf(g1)
                    /\ Len(g2) <= Len(g1)
                    /\ \A c \in 1..Len(g2) : UnionOfConsecutive(g2[c], g1)

\* a table grouped with threshold 10 into at least two groups, one of which
\* is split further by threshold 0
C28_Witness ==
    /\ pc = "seg_done"
    /\ groups.raised = None
    /\ threshold = Float(10)
    /\ Len(groups.groups) >= 2
    /\ LET g1 == group_frames_by_similarity(self_frames, Float(0)).groups
       IN  /\ Len(g1) > Len(groups.groups)
           /\ StartsOf(groups.groups) # StartsOf(g1)

\* selected_frames is strictly ascending and holds keys of analyzer.frames
SelectionSorted ==
    /\ \A k \in 1..(Len(selected_frames) - 1) :
          selected_frames[k] < selected_frames[k + 1]
    /\ \A k \in 1..Len(selected_frames) :
          selected_frames[k] \in DOMAIN self_frames

\* the button press of this step ended in an error dialog: start > end, or
\* a text that int() does not accept
Refused ==
    messagebox' \in {RangeError, RangeValueError, IndividualValueError}

(***************************************************************************)
(* C29  Selection invariant: after any sequence of add_range,              *)
(* add_individual and clear_selection, selected_frames is strictly         *)
(* ascending and every element is a key of analyzer.frames; an add_range   *)
(* with start > end, or an add whose text does not parse as integers,      *)
(* leaves selected_frames unchanged.                                       *)
(***************************************************************************)
C29_SelectionInvariant ==
    /\ [](pc = "selector" => SelectionSorted)
    /\ [][(pc = "selector" /\ Refused) =>
             selected_frames' = selected_frames]_vars

\* three frames are selected, and the last button press was refused
C29_Witness ==
    /\ pc = "selector"
    /\ Len(selected_frames) = 3
    /\ selected_frames[1] = 1 /\ selected_frames[3] = 4
    /\ messagebox # None

\* parse and container write of the animation n complete without exception
Completes(n) ==
    /\ script_dir[n].exists
    /\ ~ parse_header_file_raises(script_dir[n].content)
    /\ ~ create_binary_file(parse_header_file(script_dir[n].content)).raised

\* the animations that complete, in the order of the list
CompletedNames == SelectSeq(Animations, Completes)

\* the manifest on disk lists exactly the completed animations, each with
\* the three numbers at the start of its container
ManifestConsistent ==
    /\ int_str(manifest_file.count) = Len(manifest_file.entries)
    /\ [k \in 1..Len(manifest_file.entries) |-> manifest_file.entries[k].name]
         = CompletedNames
    /\ \A k \in 1..Len(manifest_file.entries) :
          LET e == manifest_file.entries[k]
              b == output_dir[e.name].bytes
          IN  /\ output_dir[e.name].exists
              /\ Len(b) >= 12
              /\ int_str(e.frame_count) = u16_at(b, 0)
              /\ int_str(e.fps) = u16_at(b, 2)
              /\ int_str(e.max_compressed_size) = u16_at(b, 4)

(***************************************************************************)
(* C30  Manifest consistency under failures: after main() the manifest in  *)
(* data/ has a first line equal to the number of its entries and lists     *)
(* exactly the animations whose parse and container write completed, each  *)
(* with the frame_count, fps and max_compressed_size of its container;     *)
(* every animation that completes has been converted, whatever happened    *)
(* to the ones before it.                                                  *)
(***************************************************************************)
C30_ManifestConsistent ==
    pc = "main_done" =>
        /\ manifest_file.exists => ManifestConsistent
        /\ \A n \in AnimNames :
              Completes(n) =>
                  output_dir[n] =
                      [exists |-> TRUE,
                       bytes |-> create_binary_file(
                                    parse_header_file(script_dir[n].content)).bytes]

====
